---- MODULE Spec2Model ----
(***************************************************************************)
(* Model of napari_update_checker/qt_update_checker.py: the two memoized   *)
(* catalog fetches, get_latest_version, and the UpdateChecker widget with  *)
(* its snooze record file (ignore.txt).                                    *)
(*                                                                         *)
(* Text (version strings, file contents) is a sequence of character codes: *)
(* 0..9 are the digits, the other codes are named below.                   *)
(***************************************************************************)
EXTENDS Integers, Sequences, FiniteSets, TLC

\* ---------------------------------------------------------------- bounds
MaxChecks == 2
MaxDays == 22
MaxEnv == 1
MaxLen == 2

\* ------------------------------------------------------------ characters
DOT == 10
LV == 11
DASH == 12
NL == 13
LX == 14

IGNORE_DAYS == 21

\* Python's None, as a value of each kind it stands in for: a text (a missing
\* name, no record file), a list of texts, a Version.
None == <<-1>>
NoList == <<None>>
NoVersion == [release |-> None]

\* ------------------------------------------------------- text utilities
IsDigits(s) == \A i \in 1..Len(s) : s[i] \in 0..9

RECURSIVE ToInt(_)
ToInt(s) == IF s = <<>> THEN 0
            ELSE 10 * ToInt(SubSeq(s, 1, Len(s) - 1)) + s[Len(s)]

RECURSIVE Split(_, _)
Split(s, sep) ==
    IF \E i \in 1..Len(s) : s[i] = sep
    THEN LET i == CHOOSE k \in 1..Len(s) :
                      s[k] = sep /\ \A j \in 1..(k - 1) : s[j] # sep
         IN <<SubSeq(s, 1, i - 1)>> \o Split(SubSeq(s, i + 1, Len(s)), sep)
    ELSE <<s>>

Reversed(s) == [i \in 1..Len(s) |-> s[Len(s) + 1 - i]]

Last(s) == s[Len(s)]

\* ---------------------------------------------- packaging.version.parse
\* Over the alphabet digits, ".", "v", other: a version is an optional
\* leading "v" followed by dot-separated non-empty digit runs.
ReleaseText(s) == IF Len(s) > 0 /\ s[1] = LV THEN Tail(s) ELSE s

ValidVersion(s) ==
    LET parts == Split(ReleaseText(s), DOT)
    IN \A i \in 1..Len(parts) : parts[i] # <<>> /\ IsDigits(parts[i])

parse(s) ==
    LET parts == Split(ReleaseText(s), DOT)
    IN [release |-> [i \in 1..Len(parts) |-> ToInt(parts[i])]]

\* Version._key: the release with its trailing zeros dropped.
RECURSIVE StripZeros(_)
StripZeros(r) == IF r # <<>> /\ r[Len(r)] = 0
                 THEN StripZeros(SubSeq(r, 1, Len(r) - 1))
                 ELSE r

VersionKey(v) == StripZeros(v.release)

\* Python tuple ordering: first differing element decides, a proper prefix
\* is smaller.
TupleLess(a, b) ==
    \/ \E i \in 1..Len(a) :
          /\ i <= Len(b)
          /\ a[i] < b[i]
          /\ \A j \in 1..(i - 1) : a[j] = b[j]
    \/ /\ Len(a) < Len(b)
       /\ \A j \in 1..Len(a) : a[j] = b[j]

VersionGT(a, b) == TupleLess(VersionKey(b), VersionKey(a))
VersionEQ(a, b) == VersionKey(a) = VersionKey(b)
VersionGE(a, b) == ~VersionGT(b, a)

\* ------------------------------------------------------- datetime.date
\* A date is its proleptic Gregorian ordinal (date.toordinal()).
IsLeap(y) == y % 4 = 0 /\ (y % 100 # 0 \/ y % 400 = 0)

DaysInMonth(y, m) ==
    IF m = 2 THEN (IF IsLeap(y) THEN 29 ELSE 28)
    ELSE IF m \in {4, 6, 9, 11} THEN 30 ELSE 31

DaysBeforeYear(y) ==
    (y - 1) * 365 + (y - 1) \div 4 - (y - 1) \div 100 + (y - 1) \div 400

RECURSIVE DaysBeforeMonth(_, _)
DaysBeforeMonth(y, m) ==
    IF m = 1 THEN 0 ELSE DaysBeforeMonth(y, m - 1) + DaysInMonth(y, m - 1)

Ymd2Ord(y, m, d) == DaysBeforeYear(y) + DaysBeforeMonth(y, m) + d

Ord2Ymd(n) ==
    LET y0 == (n - 1) \div 365 + 1
        y == CHOOSE k \in (y0 - 3)..y0 :
                 DaysBeforeYear(k) < n /\ n <= DaysBeforeYear(k + 1)
        r == n - DaysBeforeYear(y)
        m == CHOOSE k \in 1..12 :
                 DaysBeforeMonth(y, k) < r
                 /\ r <= DaysBeforeMonth(y, k) + DaysInMonth(y, k)
    IN <<y, m, r - DaysBeforeMonth(y, m)>>

Digits(n, width) == [i \in 1..width |-> (n \div (10 ^ (width - i))) % 10]

\* date.isoformat(): "%04d-%02d-%02d"
isoformat(n) ==
    LET ymd == Ord2Ymd(n)
    IN Digits(ymd[1], 4) \o <<DASH>> \o Digits(ymd[2], 2) \o <<DASH>>
       \o Digits(ymd[3], 2)

\* date.fromisoformat(): exactly YYYY-MM-DD naming a date of the calendar;
\* anything else raises ValueError.
IsIsoDate(s) ==
    /\ Len(s) = 10
    /\ s[5] = DASH /\ s[8] = DASH
    /\ IsDigits(SubSeq(s, 1, 4)) /\ IsDigits(SubSeq(s, 6, 7))
    /\ IsDigits(SubSeq(s, 9, 10))
    /\ LET y == ToInt(SubSeq(s, 1, 4))
           m == ToInt(SubSeq(s, 6, 7))
           d == ToInt(SubSeq(s, 9, 10))
       IN y \in 1..9999 /\ m \in 1..12 /\ d \in 1..DaysInMonth(y, m)

fromisoformat(s) ==
    Ymd2Ord(ToInt(SubSeq(s, 1, 4)), ToInt(SubSeq(s, 6, 7)),
            ToInt(SubSeq(s, 9, 10)))

\* ------------------------------------------------------ the two catalogs
\* Mutant of TagVersions: the leading "v" is kept.
RECURSIVE TagVersions_NoStrip(_)
TagVersions_NoStrip(data) ==
    IF data = <<>> THEN <<>>
    ELSE LET version == Head(data)
         IN (IF version # None /\ version # <<>>
             THEN <<version>>
             ELSE <<>>) \o TagVersions_NoStrip(Tail(data))

\* github_tags: the names of the response's items, in response order,
\* skipping items without a (non-empty) name, minus one leading "v".
RECURSIVE TagVersions(_)
TagVersions(data) ==
    IF data = <<>> THEN <<>>
    ELSE LET version == Head(data)
         IN (IF version # None /\ version # <<>>
             THEN <<IF version[1] = LV THEN Tail(version) ELSE version>>
             ELSE <<>>) \o TagVersions(Tail(data))

github_tags(data) == Reversed(TagVersions(data))

\* conda_forge_releases: data.get('versions', [])
conda_forge_releases(data) == IF data = NoList THEN <<>> ELSE data

\* get_latest_version, after both results are in: cf_versions[-1] and
\* gh_tags[-1] raise IndexError on an empty list, parse raises
\* InvalidVersion.
LatestRaises(gh_tags, cf_versions) ==
    \/ cf_versions = <<>>
    \/ ~ValidVersion(Last(cf_versions))
    \/ gh_tags = <<>>
    \/ ~ValidVersion(Last(gh_tags))

\* Mutants of LatestOf: the comparison turned around; the tie given to the
\* package index; the first entries read instead of the last.
LatestOf_Smaller(gh_tags, cf_versions) ==
    LET latest_version == parse(Last(cf_versions))
        latest_tag == parse(Last(gh_tags))
    IN IF VersionGT(latest_tag, latest_version)
       THEN latest_version
       ELSE latest_tag

LatestOf_TieToIndex(gh_tags, cf_versions) ==
    LET latest_version == parse(Last(cf_versions))
        latest_tag == parse(Last(gh_tags))
    IN IF VersionGE(latest_version, latest_tag)
       THEN latest_version
       ELSE latest_tag

LatestOf_First(gh_tags, cf_versions) ==
    LET latest_version == parse(Head(cf_versions))
        latest_tag == parse(Head(gh_tags))
    IN IF VersionGT(latest_version, latest_tag)
       THEN latest_version
       ELSE latest_tag

LatestOf(gh_tags, cf_versions) ==
    LET latest_version == parse(Last(cf_versions))
        latest_tag == parse(Last(gh_tags))
    IN IF VersionGT(latest_version, latest_tag)
       THEN latest_version
       ELSE latest_tag

\* --------------------------------------------------------- snooze record
\* Mutant of Suppressed: the parse is not guarded.
Suppressed_Nothing == {}

\* The exceptions the with-block of _check_time swallows.
Suppressed == {"ValueError"}

\* Mutants of CheckTimeOf: a record of exactly IGNORE_DAYS days still
\* snoozes; a stale record is left on disk; an unparseable record clears
\* the flag; a record dated after today does not snooze.
CheckTimeOf_FutureStale(f, t, sn) ==
    IF f = None
    THEN [branch |-> "absent", raises |-> "none", ret |-> FALSE,
          file |-> f, snoozed |-> sn]
    ELSE IF IsIsoDate(f)
         THEN IF t - fromisoformat(f) < IGNORE_DAYS /\ t >= fromisoformat(f)
              THEN [branch |-> "active", raises |-> "none", ret |-> TRUE,
                    file |-> f, snoozed |-> TRUE]
              ELSE [branch |-> "stale", raises |-> "none", ret |-> FALSE,
                    file |-> None, snoozed |-> FALSE]
         ELSE [branch |-> "corrupt", raises |-> "none", ret |-> FALSE,
               file |-> None, snoozed |-> sn]

CheckTimeOf_CorruptResets(f, t, sn) ==
    IF f = None
    THEN [branch |-> "absent", raises |-> "none", ret |-> FALSE,
          file |-> f, snoozed |-> sn]
    ELSE IF IsIsoDate(f)
         THEN IF t - fromisoformat(f) < IGNORE_DAYS
              THEN [branch |-> "active", raises |-> "none", ret |-> TRUE,
                    file |-> f, snoozed |-> TRUE]
              ELSE [branch |-> "stale", raises |-> "none", ret |-> FALSE,
                    file |-> None, snoozed |-> FALSE]
         ELSE [branch |-> "corrupt", raises |-> "none", ret |-> FALSE,
               file |-> None, snoozed |-> FALSE]

CheckTimeOf_Inclusive(f, t, sn) ==
    IF f = None
    THEN [branch |-> "absent", raises |-> "none", ret |-> FALSE,
          file |-> f, snoozed |-> sn]
    ELSE IF IsIsoDate(f)
         THEN IF t - fromisoformat(f) <= IGNORE_DAYS
              THEN [branch |-> "active", raises |-> "none", ret |-> TRUE,
                    file |-> f, snoozed |-> TRUE]
              ELSE [branch |-> "stale", raises |-> "none", ret |-> FALSE,
                    file |-> None, snoozed |-> FALSE]
         ELSE [branch |-> "corrupt", raises |-> "none", ret |-> FALSE,
               file |-> None, snoozed |-> sn]

CheckTimeOf_KeepStale(f, t, sn) ==
    IF f = None
    THEN [branch |-> "absent", raises |-> "none", ret |-> FALSE,
          file |-> f, snoozed |-> sn]
    ELSE IF IsIsoDate(f)
         THEN IF t - fromisoformat(f) < IGNORE_DAYS
              THEN [branch |-> "active", raises |-> "none", ret |-> TRUE,
                    file |-> f, snoozed |-> TRUE]
              ELSE [branch |-> "stale", raises |-> "none", ret |-> FALSE,
                    file |-> f, snoozed |-> FALSE]
         ELSE [branch |-> "corrupt", raises |-> "none", ret |-> FALSE,
               file |-> None, snoozed |-> sn]

\* UpdateChecker._check_time on record file f (None: no file), day t and
\* self._snoozed = sn: the branch taken, the exception that leaves the
\* method ("none": it returns), the return value, and the file and the flag
\* afterwards.
CheckTimeOf(f, t, sn) ==
    IF f = None
    THEN [branch |-> "absent", raises |-> "none", ret |-> FALSE,
          file |-> f, snoozed |-> sn]
    ELSE IF IsIsoDate(f)
         THEN IF t - fromisoformat(f) < IGNORE_DAYS
              THEN [branch |-> "active", raises |-> "none", ret |-> TRUE,
                    file |-> f, snoozed |-> TRUE]
              ELSE [branch |-> "stale", raises |-> "none", ret |-> FALSE,
                    file |-> None, snoozed |-> FALSE]
         ELSE IF "ValueError" \in Suppressed
              THEN [branch |-> "corrupt", raises |-> "none", ret |-> FALSE,
                    file |-> None, snoozed |-> sn]
              ELSE [branch |-> "corrupt", raises |-> "ValueError",
                    ret |-> FALSE, file |-> f, snoozed |-> sn]

\* Mutant of Outdated: an equal version counts as an update.
Outdated_OrEqual(remote_version, my_version) ==
    VersionGE(remote_version, my_version)

\* show_version_info: remote_version > my_version
Outdated(remote_version, my_version) == VersionGT(remote_version, my_version)

\* Mutant of Prompt: the flag is not consulted.
Prompt_Always(sn) == TRUE

\* show_version_info: if not self._snoozed
Prompt(sn) == ~sn

\* Mutant of NetworkFailed: only the tag list's result() is guarded.
NetworkFailed_TagsOnly(fetch) == fetch["A"] = "neterr"

\* get_latest_version: the except clause is entered when either future's
\* result() raises HTTPError / URLError.
NetworkFailed(fetch) == \E s \in {"A", "B"} : fetch[s] = "neterr"

\* Mutant of BothDone: a failed future ends the wait.
BothDone_OrFailed(fetch) ==
    \/ \A s \in {"A", "B"} : fetch[s] \in {"ok", "neterr"}
    \/ \E s \in {"A", "B"} : fetch[s] = "neterr"

\* get_latest_version: leaving the with-block shuts the executor down and
\* waits for both futures, whether they returned or raised.
BothDone(fetch) == \A s \in {"A", "B"} : fetch[s] \in {"ok", "neterr"}

\* -------------------------------------------------------- input alphabet
V040 == <<0, DOT, 4, DOT, 0>>
V043 == <<0, DOT, 4, DOT, 3>>
V045 == <<0, DOT, 4, DOT, 5>>
V050 == <<0, DOT, 5, DOT, 0>>
V10 == <<1, DOT, 0>>
V100 == <<1, DOT, 0, DOT, 0>>

Day0 == Ymd2Ord(2024, 2, 20)

RECURSIVE SeqsUpTo(_, _)
SeqsUpTo(S, n) ==
    IF n = 0 THEN {<<>>}
    ELSE LET shorter == SeqsUpTo(S, n - 1)
         IN shorter \cup {Append(q, x) : q \in {r \in shorter : Len(r) = n - 1},
                                         x \in S}

\* Catalog A answers (newest tag first, as the tag listing gives them) and
\* catalog B answers (NoList: a response without the 'versions' key).
ItemsA == {<<LV>> \o V045, V043, V100, None}
StringsB == {V043, V050, V10}
Installed == {V040, V050}

AllRemoteA == SeqsUpTo(ItemsA, MaxLen)
AllRemoteB == SeqsUpTo(StringsB, MaxLen)

SomeRemoteA == {<<<<LV>> \o V045, <<LV>> \o V043>>, <<>>}
SomeRemoteB == {<<V043, V050>>, NoList}

\* What ignore.txt may hold at start-up: nothing, a record of an earlier
\* run, or something that is no ISO date.
InitFiles == {None, isoformat(Day0 - 5)}
CorruptFiles ==
    {<<>>, <<LX, LX>>, isoformat(Day0) \o <<NL>>,
     <<2, 0, 2, 4, DASH, 0, 2, DASH, 3, 0>>}

\* A record dated after the day the checker is constructed.
FutureFiles == {isoformat(Day0 + 1)}

DaySteps == {IGNORE_DAYS - 1, IGNORE_DAYS}

Sources == {"A", "B"}

\* ------------------------------------------------------------------ state
VARIABLES
    today,            \* date.today(), as an ordinal
    file,             \* content of <sys.prefix>/ignore.txt, None: no file
    remoteA,          \* what catalog A answers now
    remoteB,          \* what catalog B answers now
    envsteps,         \* external file and catalog changes so far
    cache,            \* lru_cache of github_tags / conda_forge_releases
    current_version,  \* self._current_version (its text)
    snoozed,          \* self._snoozed
    label,            \* self.label
    timer,            \* self._timer is running
    nchecks,          \* calls of check() so far
    worker,           \* per check: the worker and what the check did
    modals            \* checks whose QMessageBox.exec_() is open, innermost last

vars == <<today, file, remoteA, remoteB, envsteps, cache, current_version,
          snoozed, label, timer, nchecks, worker, modals>>

Checks == 1..MaxChecks

\* The thread a step runs on: get_latest_version is the function of the
\* worker created by create_worker; show_version_info is wrapped by
\* ensure_main_thread.
WorkerThread == "worker"
MainThread == "main"

\* emitted: the user-visible outputs of the check, each with the thread
\* that made the call.
NoWorker ==
    [pc |-> "none", fetch |-> [s \in Sources |-> "queued"],
     result |-> [s \in Sources |-> NoList],
     requests |-> [s \in Sources |-> 0],
     warnings |-> 0, value |-> NoVersion, branch |-> "none", ct |-> FALSE,
     flag |-> FALSE,
     outcome |-> "none", prompts |-> 0, wrote |-> FALSE,
     emitted |-> {}]

InitCommon ==
    /\ today = Day0
    /\ envsteps = 0
    /\ cache = [s \in Sources |-> NoList]
    /\ snoozed = FALSE
    /\ label = [kind |-> "checking", my |-> NoVersion, remote |-> NoVersion]
    /\ timer = TRUE
    /\ nchecks = 0
    /\ worker = [c \in Checks |-> NoWorker]
    /\ modals = <<>>

Init ==
    /\ InitCommon
    /\ file \in InitFiles
    /\ remoteA = <<<<LV>> \o V045, <<LV>> \o V043>>
    /\ remoteB = <<V043, V050>>
    /\ current_version = V043

\* ---------------------------------------------------------------- actions
\* _check (the button): label reset, timer (re)started.  The button cannot
\* be clicked while an application-modal QMessageBox is open.
ButtonClick ==
    /\ modals = <<>>
    /\ nchecks < MaxChecks
    /\ label' = [kind |-> "checking", my |-> NoVersion, remote |-> NoVersion]
    /\ timer' = TRUE
    /\ UNCHANGED <<today, file, remoteA, remoteB, envsteps, cache,
                   current_version, snoozed, nchecks, worker, modals>>

\* check (the single-shot timer's timeout): _check_time, then the worker
\* is created and started (not when _check_time raises).
check ==
    /\ timer
    /\ nchecks < MaxChecks
    /\ LET ct == CheckTimeOf(file, today, snoozed)
           c == nchecks + 1
       IN /\ file' = ct.file
          /\ snoozed' = ct.snoozed
          /\ worker' = [worker EXCEPT ![c] =
                 [NoWorker EXCEPT
                     !.pc = IF ct.raises = "none" THEN "running"
                            ELSE "aborted",
                     !.branch = ct.branch,
                     !.ct = ct.ret]]
          /\ nchecks' = c
    /\ timer' = FALSE
    /\ UNCHANGED <<today, remoteA, remoteB, envsteps, cache, current_version,
                   label, modals>>

Remote(s) == IF s = "A" THEN remoteA ELSE remoteB
Fetched(s, data) == IF s = "A" THEN github_tags(data)
                    ELSE conda_forge_releases(data)

\* lru_cache's store after the wrapped call returned: a key that another
\* thread stored meanwhile keeps its first value.
Memoized_Overwrite(old, versions) == versions

Memoized(old, versions) == IF old = NoList THEN versions ELSE old

\* An executor thread enters the memoized function: a cache hit returns the
\* cached list, a miss issues the request.
FetchStart(c, s) ==
    /\ worker[c].pc = "running"
    /\ worker[c].fetch[s] = "queued"
    /\ worker' = [worker EXCEPT ![c] =
           IF cache[s] # NoList
           THEN [@ EXCEPT !.fetch[s] = "ok", !.result[s] = cache[s]]
           ELSE [@ EXCEPT !.fetch[s] = "inflight",
                          !.requests[s] = @ + 1]]
    /\ UNCHANGED <<today, file, remoteA, remoteB, envsteps, cache,
                   current_version, snoozed, label, timer, nchecks, modals>>

\* The request is answered: the list is built, memoized and returned.
FetchReturn(c, s) ==
    /\ worker[c].pc = "running"
    /\ worker[c].fetch[s] = "inflight"
    /\ LET versions == Fetched(s, Remote(s))
       IN /\ cache' = [cache EXCEPT ![s] = Memoized(@, versions)]
          /\ worker' = [worker EXCEPT ![c].fetch[s] = "ok",
                                      ![c].result[s] = versions]
    /\ UNCHANGED <<today, file, remoteA, remoteB, envsteps, current_version,
                   snoozed, label, timer, nchecks, modals>>

\* Mutant of FetchFail: the failed call is memoized as an empty list.
FetchFail_Memoized(c, s) ==
    /\ worker[c].pc = "running"
    /\ worker[c].fetch[s] = "inflight"
    /\ worker' = [worker EXCEPT ![c].fetch[s] = "neterr"]
    /\ cache' = [cache EXCEPT ![s] = <<>>]
    /\ UNCHANGED <<today, file, remoteA, remoteB, envsteps,
                   current_version, snoozed, label, timer, nchecks, modals>>

\* urlopen raises HTTPError / URLError: nothing is memoized.
FetchFail(c, s) ==
    /\ worker[c].pc = "running"
    /\ worker[c].fetch[s] = "inflight"
    /\ worker' = [worker EXCEPT ![c].fetch[s] = "neterr"]
    /\ UNCHANGED <<today, file, remoteA, remoteB, envsteps, cache,
                   current_version, snoozed, label, timer, nchecks, modals>>

\* get_latest_version after the executor's with-block: both futures are
\* done; a failed one re-raises in result() and the warning is shown,
\* otherwise the greater of the two last entries is yielded.
Join(c) ==
    /\ worker[c].pc = "running"
    /\ BothDone(worker[c].fetch)
    /\ LET w == worker[c]
       IN worker' = [worker EXCEPT ![c] =
              IF NetworkFailed(w.fetch)
              THEN [w EXCEPT !.pc = "warned", !.warnings = @ + 1,
                             !.emitted = @ \cup
                                 {<<"warning", WorkerThread>>}]
              ELSE IF LatestRaises(w.result["A"], w.result["B"])
                   THEN [w EXCEPT !.pc = "raised"]
                   ELSE [w EXCEPT !.pc = "yielded",
                                  !.value = LatestOf(w.result["A"],
                                                     w.result["B"])]]
    /\ UNCHANGED <<today, file, remoteA, remoteB, envsteps, cache,
                   current_version, snoozed, label, timer, nchecks, modals>>

\* show_version_info up to message.exec_() (or to its end when no dialog is
\* shown), on the main thread.
show_version_info(c) ==
    /\ worker[c].pc = "yielded"
    /\ LET my_version == parse(current_version)
           remote_version == worker[c].value
       IN IF Outdated(remote_version, my_version)
          THEN /\ label' = [kind |-> "outdated", my |-> my_version,
                            remote |-> remote_version]
               /\ IF Prompt(snoozed)
                  THEN /\ modals' = Append(modals, c)
                       /\ worker' = [worker EXCEPT ![c].pc = "modal",
                                                   ![c].flag = snoozed,
                                                   ![c].outcome = "outdated",
                                                   ![c].prompts = @ + 1,
                                                   ![c].emitted = @ \cup
                                                       {<<"label", MainThread>>,
                                                        <<"modal", MainThread>>}]
                  ELSE /\ modals' = modals
                       /\ worker' = [worker EXCEPT ![c].pc = "done",
                                                   ![c].flag = snoozed,
                                                   ![c].outcome = "outdated",
                                                   ![c].emitted = @ \cup
                                                       {<<"label", MainThread>>}]
          ELSE /\ label' = [kind |-> "latest", my |-> my_version,
                            remote |-> NoVersion]
               /\ modals' = modals
               /\ worker' = [worker EXCEPT ![c].pc = "done",
                                           ![c].flag = snoozed,
                                           ![c].outcome = "latest",
                                           ![c].emitted = @ \cup
                                               {<<"label", MainThread>>}]
    /\ UNCHANGED <<today, file, remoteA, remoteB, envsteps, cache,
                   current_version, snoozed, timer, nchecks>>

\* Mutant of RecordAfter: every answer writes the record.
RecordAfter_AnyAnswer(answer, f, t) == isoformat(t)

\* show_version_info after message.exec_(): the record file once the dialog
\* is answered on day t.
RecordAfter(answer, f, t) == IF answer = "Ignore" THEN isoformat(t) ELSE f

\* The innermost dialog is answered; Ignore writes today's date.
ModalAnswer(answer) ==
    /\ modals # <<>>
    /\ LET c == Last(modals)
       IN /\ modals' = SubSeq(modals, 1, Len(modals) - 1)
          /\ file' = RecordAfter(answer, file, today)
          /\ worker' = [worker EXCEPT ![c].pc = "done",
                                      ![c].wrote = (answer = "Ignore")]
    /\ UNCHANGED <<today, remoteA, remoteB, envsteps, cache, current_version,
                   snoozed, label, timer, nchecks>>

\* ------------------------------------------------------------ environment
Tick(d) ==
    /\ today + d <= Day0 + MaxDays
    /\ today' = today + d
    /\ UNCHANGED <<file, remoteA, remoteB, envsteps, cache, current_version,
                   snoozed, label, timer, nchecks, worker, modals>>

\* Something else removes or rewrites the record file.
External(content) ==
    /\ envsteps < MaxEnv
    /\ content # file
    /\ file' = content
    /\ envsteps' = envsteps + 1
    /\ UNCHANGED <<today, remoteA, remoteB, cache, current_version, snoozed,
                   label, timer, nchecks, worker, modals>>

\* A catalog publishes something else.
RemoteChange(a, b) ==
    /\ envsteps < MaxEnv
    /\ <<a, b>> # <<remoteA, remoteB>>
    /\ remoteA' = a
    /\ remoteB' = b
    /\ envsteps' = envsteps + 1
    /\ UNCHANGED <<today, file, cache, current_version, snoozed, label,
                   timer, nchecks, worker, modals>>

Next ==
    \/ ButtonClick
    \/ check
    \/ \E c \in Checks, s \in Sources : FetchStart(c, s)
    \/ \E c \in Checks, s \in Sources : FetchReturn(c, s)
    \/ \E c \in Checks, s \in Sources : FetchFail(c, s)
    \/ \E c \in Checks : Join(c)
    \/ \E c \in Checks : show_version_info(c)
    \/ \E answer \in {"Ok", "Ignore"} : ModalAnswer(answer)
    \/ \E d \in DaySteps : Tick(d)
    \/ \E content \in {None} \cup CorruptFiles : External(content)
    \/ \E a \in SomeRemoteA, b \in SomeRemoteB : RemoteChange(a, b)

Spec == Init /\ [][Next]_vars

\* One check over every pair of catalog answers up to MaxLen entries.
InitLatest ==
    /\ InitCommon
    /\ file = None
    /\ remoteA \in AllRemoteA
    /\ remoteB \in AllRemoteB
    /\ current_version \in Installed

NextLatest ==
    \/ check
    \/ \E c \in Checks, s \in Sources : FetchStart(c, s)
    \/ \E c \in Checks, s \in Sources : FetchReturn(c, s)
    \/ \E c \in Checks : Join(c)
    \/ \E c \in Checks : show_version_info(c)
    \/ \E answer \in {"Ok", "Ignore"} : ModalAnswer(answer)

SpecLatest == InitLatest /\ [][NextLatest]_vars

\* The snooze window: the record file may be anything at start-up, and any
\* number of days up to MaxDays passes between checks.
InitSnooze ==
    /\ InitCommon
    /\ file \in InitFiles \cup CorruptFiles
    /\ remoteA = <<<<LV>> \o V045, <<LV>> \o V043>>
    /\ remoteB = <<V043, V050>>
    /\ current_version = V043

\* No check is under way.
Idle ==
    \A c \in Checks : worker[c].pc \notin {"running", "yielded", "modal"}

\* The checker by itself: nothing else touches the record file, and the
\* catalogs do not change.
InitChecker ==
    /\ InitCommon
    /\ file \in InitFiles
    /\ remoteA = <<<<LV>> \o V045, <<LV>> \o V043>>
    /\ remoteB = <<V043, V050>>
    /\ current_version \in {V043, V050}

NextChecker ==
    \/ ButtonClick
    \/ check
    \/ \E c \in Checks, s \in Sources : FetchStart(c, s)
    \/ \E c \in Checks, s \in Sources : FetchReturn(c, s)
    \/ \E c \in Checks, s \in Sources : FetchFail(c, s)
    \/ \E c \in Checks : Join(c)
    \/ \E c \in Checks : show_version_info(c)
    \/ \E answer \in {"Ok", "Ignore"} : ModalAnswer(answer)
    \/ \E d \in DaySteps : Tick(d)

SpecChecker == InitChecker /\ [][NextChecker]_vars

\* Memoization: the catalogs change while checks run, nothing fails.
NextMemo ==
    \/ ButtonClick
    \/ check
    \/ \E c \in Checks, s \in Sources : FetchStart(c, s)
    \/ \E c \in Checks, s \in Sources : FetchReturn(c, s)
    \/ \E c \in Checks : Join(c)
    \/ \E c \in Checks : show_version_info(c)
    \/ \E answer \in {"Ok", "Ignore"} : ModalAnswer(answer)
    \/ \E a \in SomeRemoteA, b \in SomeRemoteB : RemoteChange(a, b)

SpecMemo == Init /\ [][NextMemo]_vars

\* The record file: something else rewrites or removes it between checks,
\* nothing fails and the day does not change.
NextRecord ==
    \/ ButtonClick
    \/ check
    \/ \E c \in Checks, s \in Sources : FetchStart(c, s)
    \/ \E c \in Checks, s \in Sources : FetchReturn(c, s)
    \/ \E c \in Checks : Join(c)
    \/ \E c \in Checks : show_version_info(c)
    \/ \E answer \in {"Ok", "Ignore"} : ModalAnswer(answer)
    \/ \E content \in {None} \cup CorruptFiles : External(content)

SpecRecord == Init /\ [][NextRecord]_vars

\* A record dated in the future at start-up.  The first check runs when the
\* timer started by the constructor fires, on the day of construction.
InitFuture ==
    /\ InitCommon
    /\ file \in FutureFiles
    /\ remoteA = <<<<LV>> \o V045, <<LV>> \o V043>>
    /\ remoteB = <<V043, V050>>
    /\ current_version = V043

NextFuture ==
    \/ ButtonClick
    \/ check
    \/ \E c \in Checks, s \in Sources : FetchStart(c, s)
    \/ \E c \in Checks, s \in Sources : FetchReturn(c, s)
    \/ \E c \in Checks : Join(c)
    \/ \E c \in Checks : show_version_info(c)
    \/ \E answer \in {"Ok", "Ignore"} : ModalAnswer(answer)
    \/ \E d \in 1..MaxDays : Idle /\ nchecks >= 1 /\ Tick(d)

SpecFuture == InitFuture /\ [][NextFuture]_vars

NextSnooze ==
    \/ ButtonClick
    \/ check
    \/ \E c \in Checks, s \in Sources : FetchStart(c, s)
    \/ \E c \in Checks, s \in Sources : FetchReturn(c, s)
    \/ \E c \in Checks : Join(c)
    \/ \E c \in Checks : show_version_info(c)
    \/ \E answer \in {"Ok", "Ignore"} : ModalAnswer(answer)
    \/ \E d \in 1..MaxDays : Idle /\ Tick(d)

SpecSnooze == InitSnooze /\ [][NextSnooze]_vars

TypeOK ==
    /\ nchecks \in 0..MaxChecks
    /\ snoozed \in BOOLEAN
    /\ timer \in BOOLEAN
    /\ \A c \in Checks : worker[c].pc \in
           {"none", "aborted", "running", "warned", "raised", "yielded",
            "modal", "done"}

\* ------------------------------------------------------------- properties
\* Check c has produced (yielded) a version.
Produced(c) == worker[c].value # NoVersion

\* The release of a version text, read off the text: the numbers between
\* the dots, trailing zero components dropped.
ReleaseOf(s) == StripZeros([i \in 1..Len(Split(s, DOT)) |->
                               ToInt(Split(s, DOT)[i])])

\* Release a is older than b / the same as b.
Older(a, b) == TupleLess(a, b)
Produces(c, s) == StripZeros(worker[c].value.release) = ReleaseOf(s)

\* The last entry of a list is (one of) its greatest.
LastIsGreatest(list) ==
    \A i \in 1..Len(list) : ~Older(ReleaseOf(Last(list)), ReleaseOf(list[i]))

\* C1 as stated: whenever both fetches succeed, no entry of either list, in
\* whatever order the lists are, is greater than the version produced.
C1_AnyOrder ==
    \A c \in Checks : Produced(c) =>
        \A s \in Sources : \A i \in 1..Len(worker[c].result[s]) :
            ~Older(StripZeros(worker[c].value.release),
                   ReleaseOf(worker[c].result[s][i]))

\* C1 amended: whenever both fetches succeed with lists whose last entry is
\* their greatest (lists in ascending order), no entry of either list is
\* greater than the version produced, and the version produced is an entry.
C1_Ascending ==
    \A c \in Checks :
        (Produced(c) /\ \A s \in Sources : LastIsGreatest(worker[c].result[s]))
        => /\ \A s \in Sources : \A i \in 1..Len(worker[c].result[s]) :
                 ~Older(StripZeros(worker[c].value.release),
                        ReleaseOf(worker[c].result[s][i]))
           /\ \E s \in Sources : \E i \in 1..Len(worker[c].result[s]) :
                 Produces(c, worker[c].result[s][i])

C1_Witness ==
    \E c \in Checks :
        /\ Produced(c)
        /\ \A s \in Sources :
              /\ Len(worker[c].result[s]) >= 2
              /\ LastIsGreatest(worker[c].result[s])
              /\ Older(ReleaseOf(worker[c].result[s][1]),
                       ReleaseOf(Last(worker[c].result[s])))

\* C2: whenever both fetches succeed with non-empty lists, the version
\* produced is the greater of the two lists' last entries, and it is the
\* same version value when the two last entries change places.
C2_GreaterOfLast ==
    \A c \in Checks : Produced(c) =>
        LET a == Last(worker[c].result["A"])
            b == Last(worker[c].result["B"])
        IN /\ Produces(c, a) \/ Produces(c, b)
           /\ ~Older(StripZeros(worker[c].value.release), ReleaseOf(a))
           /\ ~Older(StripZeros(worker[c].value.release), ReleaseOf(b))
           /\ VersionKey(LatestOf(<<b>>, <<a>>)) =
                  StripZeros(worker[c].value.release)

C2_Witness ==
    \E c \in Checks :
        /\ Produced(c)
        /\ Older(ReleaseOf(Last(worker[c].result["A"])),
                 ReleaseOf(Last(worker[c].result["B"])))
        /\ Produces(c, Last(worker[c].result["B"]))

\* C9: the outcome of a delivered check is UpdateAvailable, reporting the
\* installed and the latest version, exactly when installed < latest, and
\* UpToDate exactly when installed >= latest; installed 0.4.0 with A at
\* 0.4.5 and B at 0.4.3 gives UpdateAvailable with 0.4.5, installed 0.5.0
\* with both at most 0.5.0 gives UpToDate.
C9_Decision ==
    \A c \in Checks : worker[c].outcome # "none" =>
        LET I == ReleaseOf(current_version)
            L == StripZeros(worker[c].value.release)
            a == Last(worker[c].result["A"])
            b == Last(worker[c].result["B"])
        IN /\ worker[c].outcome = "outdated" <=> Older(I, L)
           /\ worker[c].outcome = "latest" <=> ~Older(I, L)
           /\ worker[c].outcome = "outdated" =>
                 /\ label.kind = "outdated"
                 /\ label.my = parse(current_version)
                 /\ label.remote = worker[c].value
           /\ worker[c].outcome = "latest" =>
                 label.kind = "latest" /\ label.my = parse(current_version)
           /\ (current_version = V040 /\ a = V045 /\ b = V043) =>
                 /\ worker[c].outcome = "outdated"
                 /\ label.remote.release = <<0, 4, 5>>
           /\ (/\ current_version = V050
               /\ ~Older(<<0, 5>>, ReleaseOf(a))
               /\ ~Older(<<0, 5>>, ReleaseOf(b))) =>
                 worker[c].outcome = "latest"

C9_Witness ==
    \E c \in Checks :
        /\ worker[c].outcome = "latest"
        /\ current_version = V050
        /\ Last(worker[c].result["B"]) = V050
        /\ Last(worker[c].result["A"]) = V045

\* C10 as stated: when the two last entries parse to equal versions, the
\* version produced is catalog B's (the package index's) entry.
C10_TieToB ==
    \A c \in Checks :
        (/\ Produced(c)
         /\ ReleaseOf(Last(worker[c].result["A"])) =
                ReleaseOf(Last(worker[c].result["B"])))
        => worker[c].value = parse(Last(worker[c].result["B"]))

\* C10 amended: when the two last entries parse to equal versions, the
\* version produced is catalog A's (the tag list's) entry.
C10_TieToA ==
    \A c \in Checks :
        (/\ Produced(c)
         /\ ReleaseOf(Last(worker[c].result["A"])) =
                ReleaseOf(Last(worker[c].result["B"])))
        => worker[c].value = parse(Last(worker[c].result["A"]))

C10_Witness ==
    \E c \in Checks :
        /\ Produced(c)
        /\ Last(worker[c].result["A"]) = V100
        /\ Last(worker[c].result["B"]) = V10
        /\ worker[c].value.release = <<1, 0, 0>>

\* The step is a call of check(): the check numbered nchecks' starts.
CheckStep == nchecks' = nchecks + 1

\* C3: a check one of whose fetches failed with a network error delivers no
\* result: no version is produced or compared, no modal is shown, the
\* record is not written by it, and the warning is shown once, when the
\* check ends; no warning is shown without a failed fetch.
C3_NetworkFailure ==
    \A c \in Checks :
        /\ (\E s \in Sources : worker[c].fetch[s] = "neterr") =>
              /\ worker[c].pc \in {"running", "warned"}
              /\ worker[c].value = NoVersion
              /\ worker[c].outcome = "none"
              /\ worker[c].prompts = 0
              /\ ~worker[c].wrote
              /\ c \notin {modals[i] : i \in 1..Len(modals)}
              /\ worker[c].warnings = IF worker[c].pc = "warned" THEN 1 ELSE 0
        /\ worker[c].warnings > 0 => \E s \in Sources :
                                         worker[c].fetch[s] = "neterr"

C3_Witness ==
    \E c \in Checks :
        /\ worker[c].fetch["A"] = "ok"
        /\ worker[c].fetch["B"] = "neterr"
        /\ worker[c].pc = "warned"
        /\ worker[c].warnings = 1

\* C4: a check that finds the record written on day D returns true and
\* leaves the file as it is on every day from D to D + 20, and returns
\* false on day D + 21 and on every later day.
C4_SnoozeWindow ==
    [][\A D \in (Day0 - IGNORE_DAYS)..today :
          (CheckStep /\ file = isoformat(D)) =>
              IF today <= D + 20
              THEN worker'[nchecks'].ct /\ file' = file
              ELSE ~worker'[nchecks'].ct]_vars

C4_Witness ==
    /\ worker[1].wrote
    /\ worker[2].branch = "active"
    /\ worker[2].ct
    /\ file = isoformat(today - 20)

\* C5: whenever _check_time returns false there is no record file
\* afterwards; a record of 21 days or more is deleted by the check that
\* reads it, before any request of that check is issued.
C5_DeletedWhenFalse ==
    [][CheckStep =>
          /\ ~worker'[nchecks'].ct => file' = None
          /\ \A D \in (Day0 - IGNORE_DAYS)..(today - 21) :
                file = isoformat(D) =>
                    /\ ~worker'[nchecks'].ct
                    /\ file' = None
                    /\ \A s \in Sources :
                          /\ worker'[nchecks'].fetch[s] = "queued"
                          /\ worker'[nchecks'].requests[s] = 0]_vars

C5_Witness ==
    \E c \in Checks :
        /\ worker[c].branch = "stale"
        /\ ~worker[c].ct
        /\ worker[c].pc = "warned"
        /\ file = None

\* C6: on a record file whose content is not an ISO date, _check_time
\* returns false without raising, and the check goes on to start its
\* fetches.
C6_CorruptRecord ==
    [][(CheckStep /\ file # None /\ ~IsIsoDate(file)) =>
          /\ worker'[nchecks'].pc = "running"
          /\ ~worker'[nchecks'].ct]_vars

C6_Witness ==
    \E c \in Checks :
        /\ worker[c].branch = "corrupt"
        /\ ~worker[c].ct
        /\ worker[c].requests["A"] = 1
        /\ worker[c].requests["B"] = 1

\* C7: a check that runs when there is no record file is not snoozed: if
\* its result is delivered with latest > installed, the modal is shown.
C7_AbsentPrompts ==
    \A c \in Checks :
        (worker[c].branch = "absent" /\ worker[c].outcome = "outdated")
        => worker[c].prompts = 1

\* C8: when a check's result is delivered with latest > installed, the
\* label becomes the outdated-version message whatever the flag; the modal
\* is shown exactly when the flag is false; a check delivers one result at
\* most and so shows one modal at most.
C8_LabelAlwaysModalIfNotSnoozed ==
    [][\A c \in Checks :
          /\ (/\ worker[c].pc = "yielded"
              /\ worker'[c].pc # "yielded"
              /\ Older(ReleaseOf(current_version),
                       StripZeros(worker[c].value.release)))
             => /\ label'.kind = "outdated"
                /\ label'.remote = worker[c].value
                /\ worker'[c].prompts = 1 <=> ~snoozed
                /\ modals' = Append(modals, c) <=> ~snoozed
                /\ snoozed => modals' = modals
          /\ worker[c].pc # "yielded" =>
                /\ worker'[c].prompts = worker[c].prompts
                /\ modals' # Append(modals, c)
          /\ worker[c].pc \in {"modal", "done", "warned", "raised", "aborted"}
                => worker'[c].pc # "yielded"
          /\ worker'[c].prompts <= 1]_vars

C8_Witness ==
    \E c \in Checks :
        /\ worker[c].outcome = "outdated"
        /\ worker[c].flag
        /\ worker[c].prompts = 0
        /\ label.kind = "outdated"
        /\ label.remote = worker[c].value

\* What get_latest_version gives on catalog answers a and b: the key of the
\* version yielded, or None when it raises instead.
ResultOf(a, b) ==
    LET gh_tags == github_tags(a)
        cf_versions == conda_forge_releases(b)
    IN IF LatestRaises(gh_tags, cf_versions)
       THEN None
       ELSE VersionKey(LatestOf(gh_tags, cf_versions))

\* Answer a with "v" put before the name of its i-th item.
WithPrefix(a, i) == [a EXCEPT ![i] = <<LV>> \o @]

\* C11: what a check gets from get_latest_version (the version yielded, or
\* the failure to yield one), and so its decision, is what it would get had
\* any one named tag of catalog A's answer carried one more leading "v".
C11_PrefixIgnored ==
    \A c \in Checks :
        worker[c].pc \in {"raised", "yielded", "modal", "done"} =>
            \A i \in 1..Len(remoteA) :
                (remoteA[i] # None /\ remoteA[i] # <<>>) =>
                    LET r == ResultOf(WithPrefix(remoteA, i), remoteB)
                    IN /\ r = IF worker[c].pc = "raised" THEN None
                              ELSE StripZeros(worker[c].value.release)
                       /\ worker[c].outcome = "outdated" =>
                             Older(ReleaseOf(current_version), r)
                       /\ worker[c].outcome = "latest" =>
                             ~Older(ReleaseOf(current_version), r)

C11_Witness ==
    \E c \in Checks :
        /\ worker[c].outcome = "outdated"
        /\ Head(remoteA) = <<LV>> \o V045
        /\ worker[c].value = parse(V045)
        /\ Last(worker[c].result["A"]) = V045

\* Check c's Ignore branch writes the record in this step.
Writes(c) == ~worker[c].wrote /\ worker'[c].wrote

\* C12 as stated: whatever the interleaving of checks and answers, every
\* write of the record by the Ignore branch happens when there is no record
\* file.
C12_NeverInPlace ==
    [][\A c \in Checks : Writes(c) => file = None]_vars

\* C12 amended: a write of the record by the Ignore branch of a check
\* finds a record file only if the Ignore branch of another check, one
\* that overlaps it, wrote that record; otherwise there is no file.
C12_InPlaceOnlyOnOverlap ==
    [][\A c \in Checks : Writes(c) =>
          \/ file = None
          \/ /\ \E c2 \in Checks \ {c} : worker[c2].wrote
             /\ \E D \in Day0..today : file = isoformat(D)]_vars

C12_Witness ==
    /\ worker[1].wrote
    /\ worker[2].wrote
    /\ file = isoformat(today)

\* C13: a check that has produced a version, a decision or the warning, or
\* that has ended, has both its fetches completed (returned or failed).
C13_BothComplete ==
    \A c \in Checks :
        (\/ worker[c].warnings > 0
         \/ worker[c].value # NoVersion
         \/ worker[c].outcome # "none"
         \/ worker[c].pc \in {"warned", "raised", "yielded", "modal", "done"})
        => \A s \in Sources : worker[c].fetch[s] \in {"ok", "neterr"}

C13_Witness ==
    \E c \in Checks :
        /\ worker[c].pc = "warned"
        /\ worker[c].fetch["A"] = "neterr"
        /\ worker[c].fetch["B"] = "ok"
        /\ worker[c].requests["B"] = 1

\* C14: a check whose fetches have both completed and whose worker has
\* run to its end has reached exactly one of UpToDate, UpdateAvailable and
\* network failure, whatever lists the sources returned.
C14_TerminalOutcome ==
    \A c \in Checks :
        worker[c].pc \in {"warned", "raised", "modal", "done"} =>
            \/ worker[c].outcome \in {"latest", "outdated"}
                  /\ worker[c].warnings = 0
            \/ worker[c].outcome = "none" /\ worker[c].warnings = 1

\* C15: once a fetch of a source has succeeded, no check issues another
\* request to that source and the memoized list never changes; a check that
\* issued no request to a source uses the memoized list, and its decision
\* is the one the memoized lists give, whatever the catalogs answer now.
C15_Memoized ==
    [][/\ \A s \in Sources :
             cache[s] # NoList =>
                 /\ cache'[s] = cache[s]
                 /\ \A c \in Checks :
                        worker'[c].requests[s] = worker[c].requests[s]
       /\ \A c \in Checks :
             /\ \A s \in Sources :
                    (worker'[c].fetch[s] = "ok"
                         /\ worker'[c].requests[s] = 0) =>
                        worker'[c].result[s] = cache'[s]
             /\ (worker'[c].value # NoVersion
                     /\ \A s \in Sources : worker'[c].requests[s] = 0) =>
                    worker'[c].value = LatestOf(cache'["A"], cache'["B"])]_vars

\* The second check was served from the cache while the catalogs answer
\* something else, and decided by the memoized lists.
C15_Witness ==
    /\ worker[2].pc = "done"
    /\ \A s \in Sources : worker[2].requests[s] = 0
    /\ worker[2].outcome = "outdated"
    /\ cache["A"] # github_tags(remoteA)
    /\ cache["B"] # conda_forge_releases(remoteB)

\* C16: from the same checker state, a check that finds an unparseable
\* record and one that finds no record do the same: the snoozed check
\* returns false, the snoozed flag is left as it was, no record file is left
\* and the worker is started.
C16_CorruptLikeAbsent ==
    [][(CheckStep /\ (file = None \/ ~IsIsoDate(file))) =>
           /\ worker'[nchecks'].ct = FALSE
           /\ snoozed' = snoozed
           /\ file' = None
           /\ worker'[nchecks'].pc = "running"]_vars

\* A check found an unparseable record while the flag was set by the check
\* before it.
C16_Witness ==
    /\ worker[1].branch = "active"
    /\ worker[2].branch = "corrupt"
    /\ worker[2].ct = FALSE
    /\ snoozed
    /\ file = None

\* C17: every user-visible output of a check (label update, modal dialog,
\* network-failure warning) is emitted on the main thread, never on the
\* worker.
C17_MainThreadOnly ==
    \A c \in Checks :
        \A e \in worker[c].emitted : e[2] = "main"

\* C18: the record file gets a content only in the step in which a dialog
\* is answered Ignore (the only other change is its removal by the snoozed
\* check); and when a check ended with OK and no dialog was answered Ignore,
\* a check that finds an update available prompts again.
C18_WrittenOnlyOnIgnore ==
    [][/\ file' # file =>
             \/ CheckStep /\ file' = None
             \/ \E c \in Checks :
                    /\ Writes(c)
                    /\ worker[c].pc = "modal"
                    /\ file' = isoformat(today)
       /\ \A c \in Checks :
             (/\ worker[c].pc = "yielded"
              /\ worker'[c].outcome = "outdated"
              /\ \A c2 \in Checks : ~worker[c2].wrote
              /\ \E c2 \in Checks \ {c} :
                     /\ worker[c2].pc = "done"
                     /\ worker[c2].prompts = 1) =>
                 worker'[c].prompts = 1]_vars

\* The first check ended with OK and nothing was written; the second
\* check prompts again.
C18_Witness ==
    /\ worker[1].pc = "done"
    /\ worker[1].prompts = 1
    /\ ~worker[1].wrote
    /\ file = None
    /\ worker[2].pc = "modal"
    /\ worker[2].prompts = 1

\* C19: a failed fetch is not memoized.  When a check turns to a source, it
\* issues a request exactly if no fetch of that source has succeeded so far
\* (so a source whose fetches all failed is requested again) and is
\* otherwise served the memoized list; no check requests a source twice;
\* and a check whose fetches have both succeeded yields a version.
C19_FailureNotMemoized ==
    [][\A c \in Checks :
          /\ \A s \in Sources :
                /\ worker'[c].requests[s] <= 1
                /\ (worker[c].fetch[s] = "queued"
                        /\ worker'[c].fetch[s] # "queued") =>
                       /\ worker'[c].requests[s] = 1 <=>
                              \A c2 \in Checks : worker[c2].fetch[s] # "ok"
                       /\ worker'[c].requests[s] = 0 =>
                              /\ worker'[c].fetch[s] = "ok"
                              /\ worker'[c].result[s] = cache[s]
          /\ (/\ worker[c].pc = "running"
              /\ worker'[c].pc # "running"
              /\ \A s \in Sources : worker[c].fetch[s] = "ok") =>
                 /\ worker'[c].pc = "yielded"
                 /\ worker'[c].value # NoVersion
                 /\ worker'[c].warnings = 0]_vars

\* The first check ended in network failure with catalog A failed and
\* catalog B fetched; the second requested catalog A only and yielded.
C19_Witness ==
    /\ worker[1].pc = "warned"
    /\ worker[1].fetch["A"] = "neterr"
    /\ worker[1].fetch["B"] = "ok"
    /\ worker[2].requests["A"] = 1
    /\ worker[2].requests["B"] = 0
    /\ worker[2].pc = "yielded"
    /\ worker[2].value # NoVersion

\* C20: a record dated after the day the checker started snoozes like any
\* other: at every check before the record's date plus IGNORE_DAYS, also
\* while that date is still ahead, the snoozed check returns true, sets the
\* flag and keeps the file; from that day on it returns false and removes
\* the file.
C20_FutureRecord ==
    [][\A D \in (Day0 + 1)..(Day0 + MaxDays) :
          (CheckStep /\ file = isoformat(D)) =>
              IF today < D + IGNORE_DAYS
              THEN /\ worker'[nchecks'].ct = TRUE
                   /\ snoozed'
                   /\ file' = file
              ELSE /\ worker'[nchecks'].ct = FALSE
                   /\ ~snoozed'
                   /\ file' = None]_vars

\* The first check read the record a day before its date; a check
\* IGNORE_DAYS days after the first is still snoozed by it.
C20_Witness ==
    /\ today = Day0 + IGNORE_DAYS
    /\ file = isoformat(Day0 + 1)
    /\ \A c \in Checks : ~worker[c].wrote
    /\ worker[1].ct /\ worker[1].pc = "done" /\ worker[1].prompts = 0
    /\ worker[2].ct /\ worker[2].pc = "running"
    /\ snoozed

====
